---- MODULE Spec2Model ----
(***************************************************************************)
(* Scam detection microservice: the periodic scan job, the nightly summary *)
(* job, the scheduler that triggers both, and the detection coordinator    *)
(* (risk score, risk level, detection method).                             *)
(*                                                                         *)
(* Units.  A confidence c in [0,1] is the integer 10*c (tenths), a risk    *)
(* score s in [0,100] the integer 10*s, a threshold t in [0,1] the integer *)
(* 100*t.  The source computes in binary64 floats.  For confidences that   *)
(* are tenths, confidence*60 + confidence*40 is exact; threshold*100 is    *)
(* not exact for every threshold, see Times100.                            *)
(***************************************************************************)
EXTENDS Integers, Sequences, FiniteSets, TLC

VARIABLES
    flags,       \* table scam_flags: sequence of committed rows
    runs,        \* table scam_detection_runs: sequence of committed rows
    reports,     \* table nightly_scam_reports: sequence of committed rows
    scan,        \* per executor slot: the state of a periodic_scan_job coroutine
    nightly,     \* per executor slot: the state of a nightly_summary_job coroutine
    instances,   \* scheduler: number of running instances per job id
    skipped,     \* scheduler: per job id, was a trigger skipped during the running instance
    today,       \* the calendar day (date.today(), func.now())
    analysis,    \* one call of analyze_message: its message and what it returned
    settings,    \* app.config.settings: the risk thresholds, in hundredths
    patterns,    \* PatternMatcher.patterns: the rule table
    pcheck,      \* one text and what PatternMatcher.check last returned for it
    known_scam_numbers,  \* BehavioralDetector.known_scam_numbers
    clock,       \* datetime.utcnow(), in minutes since the service started
    next_fire,   \* the next fire time of the interval trigger of periodic_scan
    portal,      \* the messages the portal has stored, with their inserted_at
    windows      \* per run, the time range its fetch asked the portal for

(* The state of the detectors *)
detvars == <<patterns, pcheck, known_scam_numbers>>

winvars == <<clock, next_fire, portal, windows>>

vars == <<flags, runs, reports, scan, nightly, instances, skipped, today, analysis,
          settings, detvars, winvars>>

----------------------------------------------------------------------------
(* Bounds of the model *)

MaxBatch == 2        \* longest batch a fetch returns
MaxAdded == 2        \* calls of add_pattern
MaxWords == 2        \* words of a text given to the rule library
MaxFlags == 2        \* flags of the day a nightly summary reports on
MaxRuns == 2         \* rows of scam_detection_runs
MaxDay == 2          \* calendar days
NumSlots == 2        \* coroutines of one job the event loop could hold

Slots == 1..NumSlots
JobIds == {"periodic_scan", "nightly_summary"}

----------------------------------------------------------------------------
(* Configuration: app/config.py *)

risk_threshold_critical == 90    \* 0.9
risk_threshold_high == 70        \* 0.7
risk_threshold_medium == 40      \* 0.4

max_ai_reviews_daily == 20

(* Settings(): the defaults, unless the environment sets an option *)
DefaultSettings ==
    [risk_threshold_critical |-> risk_threshold_critical,
     risk_threshold_high |-> risk_threshold_high,
     risk_threshold_medium |-> risk_threshold_medium,
     max_ai_reviews_daily |-> max_ai_reviews_daily]

(* Configurations of the environment: the defaults and other values of the *)
(* medium threshold.                                                       *)
SettingsChoices ==
    {[DefaultSettings EXCEPT !.risk_threshold_medium = m] : m \in {28, 40, 56}}

(* app/jobs/scheduler.py: max_instances of both jobs *)
max_instances == 1

----------------------------------------------------------------------------
(* Detection coordinator: app/detection/integrated_detector.py *)

Min(a, b) == IF a <= b THEN a ELSE b

RECURSIVE SumOf(_)
SumOf(S) == IF S = {} THEN 0
            ELSE LET x == CHOOSE y \in S : TRUE IN x + SumOf(S \ {x})

(* What PatternMatcher.check can return: no match has confidence 0.0, a    *)
(* match has the confidence of a rule, any value in [0,1].                 *)
PatternResults ==
    {[is_match |-> FALSE, confidence |-> 0]}
        \cup {[is_match |-> TRUE, confidence |-> c] : c \in 0..10}

(* What BehavioralDetector.check can return: the confidence is the sum of  *)
(* the weights of the conditions that hold (0.9, 0.6, 0.4, 0.3, 0.5, 0.2), *)
(* at most 1.0, and is_suspicious is confidence >= 0.4.                    *)
BehavioralResults ==
    {[is_suspicious |-> (Min(10, SumOf(W)) >= 4), confidence |-> Min(10, SumOf(W))] :
        W \in SUBSET {9, 6, 4, 3, 5, 2}}

_calculate_risk_score_NoGate(pattern_result, behavioral_result) ==
    Min(1000, pattern_result.confidence * 60 + behavioral_result.confidence * 40)

_calculate_risk_score(pattern_result, behavioral_result) ==
    LET s1 == IF pattern_result.is_match
              THEN pattern_result.confidence * 60 ELSE 0
        s2 == IF behavioral_result.is_suspicious
              THEN s1 + behavioral_result.confidence * 40 ELSE s1
    IN  Min(1000, s2)

(* The float product threshold * 100 of lines 113-117, for a threshold of  *)
(* t hundredths: <<v, u>> is the double v/10 when u = 0, the next double    *)
(* above it when u = 1, the next below when u = -1.  In binary64 the       *)
(* product is exact for every t in 0..100 except 0.07, 0.14, 0.28, 0.55,   *)
(* 0.56 (one ulp above: 0.56 * 100 = 56.00000000000001) and 0.29, 0.57,    *)
(* 0.58 (one ulp below: 0.57 * 100 = 56.99999999999999).                   *)
Times100(t) ==
    <<t * 10, IF t \in {7, 14, 28, 55, 56} THEN 1
              ELSE IF t \in {29, 57, 58} THEN -1 ELSE 0>>

(* risk_score >= product, for an exact risk_score *)
FloatGE(risk_score, product) ==
    \/ risk_score > product[1]
    \/ risk_score = product[1] /\ product[2] <= 0

_determine_risk_level(risk_score) ==
    IF FloatGE(risk_score, Times100(settings.risk_threshold_critical))
    THEN "CRITICAL"
    ELSE IF FloatGE(risk_score, Times100(settings.risk_threshold_high))
    THEN "HIGH"
    ELSE IF FloatGE(risk_score, Times100(settings.risk_threshold_medium))
    THEN "MEDIUM"
    ELSE "LOW"

_determine_detection_method_NoHybrid(pattern_result, behavioral_result) ==
    IF pattern_result.is_match THEN "pattern_match"
    ELSE IF behavioral_result.is_suspicious THEN "behavioral"
    ELSE "unknown"

_determine_detection_method(pattern_result, behavioral_result) ==
    IF pattern_result.is_match /\ behavioral_result.is_suspicious THEN "hybrid"
    ELSE IF pattern_result.is_match THEN "pattern_match"
    ELSE IF behavioral_result.is_suspicious THEN "behavioral"
    ELSE "unknown"

(* analyze_message: the empty sequence is None, <<r>> is the result r.     *)
(* msg.pat and msg.beh are what the two detectors return for the message.  *)
analyze_message(msg) ==
    IF ~(msg.pat.is_match \/ msg.beh.is_suspicious) THEN <<>>
    ELSE LET risk_score == _calculate_risk_score(msg.pat, msg.beh)
         IN  << [sms_id |-> msg.id,
                 message_text |-> msg.message,
                 from_number |-> msg.host_number,
                 is_scam |-> TRUE,
                 risk_level |-> _determine_risk_level(risk_score),
                 risk_score |-> risk_score,
                 detection_method |->
                     _determine_detection_method(msg.pat, msg.beh)] >>

----------------------------------------------------------------------------
(* Texts.  A text is the sequence of its characters, each a string of      *)
(* length 1.                                                               *)

UpperCase == <<"A", "B", "C", "D", "E", "F", "G", "H", "I", "J", "K", "L", "M",
               "N", "O", "P", "Q", "R", "S", "T", "U", "V", "W", "X", "Y", "Z">>
LowerCase == <<"a", "b", "c", "d", "e", "f", "g", "h", "i", "j", "k", "l", "m",
               "n", "o", "p", "q", "r", "s", "t", "u", "v", "w", "x", "y", "z">>

(* c.isupper() *)
isupper(c) == \E k \in DOMAIN UpperCase : UpperCase[k] = c

(* c.lower() *)
lower_char(c) ==
    IF isupper(c)
    THEN LowerCase[CHOOSE k \in DOMAIN UpperCase : UpperCase[k] = c]
    ELSE c

(* text.lower(), as a sequence *)
lower(text) == [i \in DOMAIN text |-> lower_char(text[i])] \o <<>>

(* text.count(c) *)
count(text, c) == Cardinality({i \in DOMAIN text : text[i] = c})

(* In a regular expression "." stands for any character but the newline *)
ANY == "any character"

(* The literal lit stands in the text at position i *)
LiteralAt(lit, text, i) ==
    /\ i + Len(lit) - 1 <= Len(text)
    /\ \A k \in DOMAIN lit :
          \/ lit[k] = text[i + k - 1]
          \/ lit[k] = ANY /\ text[i + k - 1] # "\n"

(* keyword in text *)
Contains(text, keyword) == \E i \in DOMAIN text : LiteralAt(keyword, text, i)

----------------------------------------------------------------------------
(* The rule library: app/detection/pattern_matcher.py                      *)
(*                                                                         *)
(* A regular expression of the table is the set of its alternatives, an    *)
(* alternative the sequence of the literal sets that ".*" separates:       *)
(* <<A, B>> is (a1|a2).*(b1|b2) and matches when a literal of A is         *)
(* followed, on the same line, by a literal of B.                          *)

Alt1(A) == <<A>>
Alt2(A, B) == <<A, B>>

(* re.search(pattern, message_lower, re.IGNORECASE) is not None, for a     *)
(* lowercased text and the lowercased literals of the pattern              *)
re_search(pattern, text) ==
    \E alt \in pattern :
        IF Len(alt) = 1
        THEN \E a \in alt[1] : Contains(text, a)
        ELSE \E a \in alt[1] : \E i \in DOMAIN text :
                /\ LiteralAt(a, text, i)
                /\ \E b \in alt[2] : \E j \in (i + Len(a))..Len(text) :
                      /\ LiteralAt(b, text, j)
                      /\ \A k \in (i + Len(a))..(j - 1) : text[k] # "\n"

Rule(pattern, confidence, description) ==
    [pattern |-> pattern, confidence |-> confidence, description |-> description]

(* The dict of _load_patterns, in its insertion order: a sequence of       *)
(* categories, each with the list of its rules.                            *)
_load_patterns ==
    <<
       [category |-> "phishing", rules |-> <<
          \* (verify|confirm|update).*account
          Rule({Alt2({<<"v", "e", "r", "i", "f", "y">>,
                       <<"c", "o", "n", "f", "i", "r", "m">>,
                       <<"u", "p", "d", "a", "t", "e">>},
                      {<<"a", "c", "c", "o", "u", "n", "t">>})},
               7, "Account verification request"),
          \* click.*link|click.*here
          Rule({Alt2({<<"c", "l", "i", "c", "k">>},
                      {<<"l", "i", "n", "k">>}),
                Alt2({<<"c", "l", "i", "c", "k">>},
                      {<<"h", "e", "r", "e">>})},
               6, "Suspicious link request"),
          \* suspend(ed)?.*account
          Rule({Alt2({<<"s", "u", "s", "p", "e", "n", "d">>},
                      {<<"a", "c", "c", "o", "u", "n", "t">>})},
               8, "Account suspension threat") >>],
       [category |-> "financial_fraud", rules |-> <<
          \* (won|win|prize|lottery|claim)
          Rule({Alt1({<<"w", "o", "n">>, <<"w", "i", "n">>,
                       <<"p", "r", "i", "z", "e">>,
                       <<"l", "o", "t", "t", "e", "r", "y">>,
                       <<"c", "l", "a", "i", "m">>})},
               7, "Prize/lottery scam"),
          \* (urgent|immediate).*payment
          Rule({Alt2({<<"u", "r", "g", "e", "n", "t">>,
                       <<"i", "m", "m", "e", "d", "i", "a", "t", "e">>},
                      {<<"p", "a", "y", "m", "e", "n", "t">>})},
               8, "Urgent payment request"),
          \* (refund|owe|owed).*(\$|dollar|money)
          Rule({Alt2({<<"r", "e", "f", "u", "n", "d">>, <<"o", "w", "e">>,
                       <<"o", "w", "e", "d">>},
                      {<<"$">>, <<"d", "o", "l", "l", "a", "r">>,
                       <<"m", "o", "n", "e", "y">>})},
               7, "Fake refund/owed money"),
          \* (bank|credit card).*expir
          Rule({Alt2({<<"b", "a", "n", "k">>,
                       <<"c", "r", "e", "d", "i", "t", " ", "c", "a", "r", "d">>},
                      {<<"e", "x", "p", "i", "r">>})},
               8, "Banking credential expiry") >>],
       [category |-> "social_engineering", rules |-> <<
          \* (act now|limited time|expires soon)
          Rule({Alt1({<<"a", "c", "t", " ", "n", "o", "w">>,
                       <<"l", "i", "m", "i", "t", "e", "d", " ", "t", "i", "m", "e">>,
                       <<"e", "x", "p", "i", "r", "e", "s", " ", "s", "o", "o", "n">>})},
               6, "Urgency tactics"),
          \* (free|gift|offer).*claim
          Rule({Alt2({<<"f", "r", "e", "e">>, <<"g", "i", "f", "t">>,
                       <<"o", "f", "f", "e", "r">>},
                      {<<"c", "l", "a", "i", "m">>})},
               5, "Free offer claim"),
          \* (tax|IRS|government).*owe
          Rule({Alt2({<<"t", "a", "x">>, <<"i", "r", "s">>,
                       <<"g", "o", "v", "e", "r", "n", "m", "e", "n", "t">>},
                      {<<"o", "w", "e">>})},
               9, "Government impersonation") >>],
       [category |-> "authentication_theft", rules |-> <<
          \* verification code|one.time.password|OTP|2FA code
          Rule({Alt1({<<"v", "e", "r", "i", "f", "i", "c", "a", "t", "i", "o", "n", " ", "c", "o", "d", "e">>,
                       <<"o", "n", "e", ANY, "t", "i", "m", "e", ANY, "p", "a", "s", "s", "w", "o", "r", "d">>,
                       <<"o", "t", "p">>,
                       <<"2", "f", "a", " ", "c", "o", "d", "e">>})},
               6, "Authentication code request"),
          \* (enter|provide|send).*code
          Rule({Alt2({<<"e", "n", "t", "e", "r">>,
                       <<"p", "r", "o", "v", "i", "d", "e">>,
                       <<"s", "e", "n", "d">>},
                      {<<"c", "o", "d", "e">>})},
               5, "Code sharing request") >>],
       [category |-> "package_delivery", rules |-> <<
          \* package.*delivery|parcel.*waiting
          Rule({Alt2({<<"p", "a", "c", "k", "a", "g", "e">>},
                      {<<"d", "e", "l", "i", "v", "e", "r", "y">>}),
                Alt2({<<"p", "a", "r", "c", "e", "l">>},
                      {<<"w", "a", "i", "t", "i", "n", "g">>})},
               7, "Fake delivery notification"),
          \* (USPS|UPS|FedEx|DHL).*redelivery
          Rule({Alt2({<<"u", "s", "p", "s">>, <<"u", "p", "s">>,
                       <<"f", "e", "d", "e", "x">>, <<"d", "h", "l">>},
                      {<<"r", "e", "d", "e", "l", "i", "v", "e", "r", "y">>})},
               8, "Courier impersonation") >>] >>

(* The rules of a table in the order the two loops of check visit them *)
RECURSIVE IterationOrder(_)
IterationOrder(table) ==
    IF table = <<>> THEN <<>>
    ELSE [k \in DOMAIN Head(table).rules |->
             [category |-> Head(table).category, rule |-> Head(table).rules[k]]]
         \o IterationOrder(Tail(table))

(* Lines 118-132: the loop over the rules, from the state acc *)
RECURSIVE CheckLoop(_, _, _)
CheckLoop(visits, message_lower, acc) ==
    IF visits = <<>> THEN acc
    ELSE LET v == Head(visits)
             hit == re_search(v.rule.pattern, message_lower)
             better == v.rule.confidence > acc.confidence
         IN  CheckLoop(Tail(visits), message_lower,
                IF ~hit THEN acc
                ELSE [patterns |-> Append(acc.patterns, v.rule.description),
                      confidence |-> IF better THEN v.rule.confidence
                                     ELSE acc.confidence,
                      category |-> IF better THEN v.category ELSE acc.category])

(* PatternMatcher.check: the category None is the string "None" *)
PatternMatcher_check(table, message) ==
    LET acc == CheckLoop(IterationOrder(table), lower(message),
                         [patterns |-> <<>>, confidence |-> 0, category |-> "None"])
    IN  [is_match |-> Len(acc.patterns) > 0,
         category |-> acc.category,
         confidence |-> acc.confidence,
         patterns |-> acc.patterns]

(* PatternMatcher.add_pattern: a new category goes to the end of the dict, *)
(* the rule to the end of its category's list.                             *)
add_pattern(table, category, pattern, confidence, description) ==
    LET known == \E i \in DOMAIN table : table[i].category = category
        t == IF known THEN table
             ELSE Append(table, [category |-> category, rules |-> <<>>])
    IN  [i \in DOMAIN t |->
            IF t[i].category = category
            THEN [t[i] EXCEPT !.rules =
                     Append(@, Rule(pattern, confidence, description))]
            ELSE t[i]]

----------------------------------------------------------------------------
(* The behavioral scorer: app/detection/behavioral_detector.py             *)
(* The weights are tenths: 0.9, 0.6, 0.4, 0.3, 0.5, 0.2.                   *)

(* Line 43: ["http", "bit.ly", "click"] *)
link_keywords ==
    {<<"h", "t", "t", "p">>,
     <<"b", "i", "t", ".", "l", "y">>,
     <<"c", "l", "i", "c", "k">>}

(* Lines 64-74 *)
suspicious_keywords ==
    {<<"c", "o", "n", "g", "r", "a", "t", "u", "l", "a", "t", "i", "o", "n", "s">>,
     <<"w", "i", "n", "n", "e", "r">>,
     <<"f", "r", "e", "e", " ", "m", "o", "n", "e", "y">>,
     <<"a", "c", "t", " ", "n", "o", "w">>,
     <<"l", "i", "m", "i", "t", "e", "d", " ", "t", "i", "m", "e">>,
     <<"e", "x", "p", "i", "r", "e", "s">>,
     <<"v", "e", "r", "i", "f", "y", " ", "a", "c", "c", "o", "u", "n", "t">>,
     <<"s", "u", "s", "p", "e", "n", "d", "e", "d">>,
     <<"l", "o", "c", "k", "e", "d">>}

(* from_number.replace("+", "").replace("-", "") *)
StripNumber(from_number) ==
    SelectSeq(from_number, LAMBDA c : c # "+" /\ c # "-")

(* The conditions of lines 35-87 that hold, by the name of their flag *)
BehavioralFlags(known_numbers, from_number, message_text) ==
    LET text == lower(message_text)
        n == Len(message_text)
        caps == Cardinality({i \in DOMAIN message_text : isupper(message_text[i])})
        keyword_matches ==
            Cardinality({k \in suspicious_keywords : Contains(text, k)})
    IN  {f \in {"known_scammer", "short_message_with_link", "excessive_caps",
                "excessive_exclamation", "multiple_suspicious_keywords",
                "international_number"} :
            \/ f = "known_scammer" /\ from_number \in known_numbers
            \/ f = "short_message_with_link"
                 /\ n < 20 /\ \E k \in link_keywords : Contains(text, k)
            \/ f = "excessive_caps" /\ n > 10 /\ 2 * caps > n
            \/ f = "excessive_exclamation" /\ count(message_text, "!") >= 3
            \/ f = "multiple_suspicious_keywords" /\ keyword_matches >= 2
            \/ f = "international_number" /\ Len(StripNumber(from_number)) > 11}

(* The weight each condition adds to suspicion_score *)
Weight(flag) ==
    CASE flag = "known_scammer" -> 9
      [] flag = "short_message_with_link" -> 6
      [] flag = "excessive_caps" -> 4
      [] flag = "excessive_exclamation" -> 3
      [] flag = "multiple_suspicious_keywords" -> 5
      [] flag = "international_number" -> 2

BehavioralDetector_check_NoClamp(known_numbers, from_number, message_text) ==
    LET flags_ == BehavioralFlags(known_numbers, from_number, message_text)
        suspicion_score == SumOf({Weight(f) : f \in flags_})
        confidence == suspicion_score
        is_suspicious == confidence >= 4
    IN  [is_suspicious |-> is_suspicious,
         confidence |-> confidence,
         flags |-> flags_,
         category |-> IF is_suspicious THEN "behavioral_analysis" ELSE "None"]

(* BehavioralDetector.check *)
BehavioralDetector_check(known_numbers, from_number, message_text) ==
    LET flags_ == BehavioralFlags(known_numbers, from_number, message_text)
        suspicion_score == SumOf({Weight(f) : f \in flags_})
        confidence == Min(10, suspicion_score)
        is_suspicious == confidence >= 4
    IN  [is_suspicious |-> is_suspicious,
         confidence |-> confidence,
         flags |-> flags_,
         category |-> IF is_suspicious THEN "behavioral_analysis" ELSE "None"]

(* BehavioralDetector.mark_number_as_scam *)
mark_number_as_scam(known_numbers, phone_number) ==
    known_numbers \cup {phone_number}

----------------------------------------------------------------------------
(* The messages of the portal: app/clients/portal_api.py returns mappings. *)
(* malformed: a message whose analysis raises: a missing key, a null text. *)
(* A message identifier always names the same message.                     *)

PortalMessage(id, message, host_number) ==
    [id |-> id, malformed |-> FALSE, message |-> message, host_number |-> host_number]

Number1 == <<"+", "1", "5", "5", "5", "1", "2", "3", "0", "0", "0", "1">>
Number2 == <<"+", "1", "5", "5", "5", "1", "2", "3", "0", "0", "0", "2">>

(* A text of 104 characters that two rules match, in capitals *)
Text1 ==
    <<"W", "E", " ", "S", "U", "S", "P", "E", "N", "D", " ", "Y", "O", "U",
    "R", " ", "A", "C", "C", "O", "U", "N", "T", "!", "!", "!", " ", "C",
    "L", "I", "C", "K", " ", "H", "E", "R", "E", " ", "N", "O", "W", " ",
    "O", "R", " ", "Y", "O", "U", "R", " ", "A", "C", "C", "O", "U", "N",
    "T", " ", "W", "I", "L", "L", " ", "B", "E", " ", "C", "L", "O", "S",
    "E", "D", " ", "F", "O", "R", "E", "V", "E", "R", ".", " ", "C", "A",
    "L", "L", " ", "U", "S", " ", "T", "O", "D", "A", "Y", " ", "A", "T",
    " ", "O", "N", "C", "E", "!">>

(* A short text no rule matches, in capitals *)
Text2 == <<"H", "E", "L", "L", "O", " ", "T", "H", "E", "R", "E", "!", "!",
         "!">>

(* A text nothing is wrong with *)
Text3 == <<"s", "e", "e", " ", "y", "o", "u", " ", "a", "t", " ", "n", "o",
         "o", "n">>

(* A text the rule of confidence 0.9 matches, with every signal of its     *)
(* wording                                                                 *)
Text5 ==
    <<"I", "R", "S", " ", "T", "A", "X", " ", "N", "O", "T", "I", "C", "E",
    "!", "!", "!", " ", "Y", "O", "U", " ", "O", "W", "E", " ", "M", "O",
    "N", "E", "Y", ".", " ", "A", "C", "T", " ", "N", "O", "W", ",", " ",
    "L", "I", "M", "I", "T", "E", "D", " ", "T", "I", "M", "E">>

PortalMessages ==
    { PortalMessage(1, Text1, Number1),
      PortalMessage(2, Text2, Number1),
      PortalMessage(3, Text3, Number2),
      [PortalMessage(4, <<>>, Number2) EXCEPT !.malformed = TRUE] }

(* A message flagged on an earlier day *)
EarlierMessages == { PortalMessage(5, Text5, Number2) }

(* Lines 50-57 of analyze_message: the message with what the two detectors *)
(* of a new IntegratedScamDetector return for it                           *)
Detected(m, table, known_numbers) ==
    [id |-> m.id, malformed |-> m.malformed, message |-> m.message,
     host_number |-> m.host_number,
     pat |-> PatternMatcher_check(table, m.message),
     beh |-> BehavioralDetector_check(known_numbers, m.host_number, m.message)]

Messages == {Detected(m, _load_patterns, {}) : m \in PortalMessages}

RECURSIVE SeqsUpTo(_, _)
SeqsUpTo(S, n) ==
    IF n = 0 THEN {<<>>}
    ELSE LET shorter == SeqsUpTo(S, n - 1)
         IN  shorter \cup {Append(q, x) : q \in shorter, x \in S}

(* What get_all_messages_in_range can return: the pages are concatenated   *)
(* without a check for repeated identifiers.                               *)
Batches == SeqsUpTo(Messages, MaxBatch)

----------------------------------------------------------------------------
(* Persistence: app/database.py, app/models/scam_flag.py *)

(* The exceptions of the model, as the text str(e) gives *)
NoError == "none"
HTTPError == "HTTPError"
IntegrityError == "IntegrityError"
OperationalError == "OperationalError"

(* db.query(ScamFlag).filter(ScamFlag.sms_id == sms_id).first() is not     *)
(* None.  The session is made with autoflush=False: the query reads the    *)
(* committed rows only, never the objects db.add() has made pending.       *)
ExistingFlag(rows, pending, sms_id) ==
    \E i \in DOMAIN rows : rows[i].sms_id = sms_id

(* The constraint unique=True on scam_flags.sms_id, as the flush of the    *)
(* pending rows meets it.                                                  *)
UniqueSmsIdNoCheck(rows, pending) == TRUE

UniqueSmsId(rows, pending) ==
    /\ \A i \in DOMAIN pending : \A j \in DOMAIN rows :
           pending[i].sms_id # rows[j].sms_id
    /\ \A i, j \in DOMAIN pending :
           i # j => pending[i].sms_id # pending[j].sms_id

(* ScamFlag(...) of periodic_scan_job; flagged_at is the server's now() *)
NewScamFlag(result, day) ==
    [sms_id |-> result.sms_id,
     message_text |-> result.message_text,
     from_number |-> result.from_number,
     is_scam |-> result.is_scam,
     risk_level |-> result.risk_level,
     risk_score |-> result.risk_score,
     detection_method |-> result.detection_method,
     reviewed |-> FALSE,
     review_status |-> "pending",
     flagged_at |-> day]

(* ScamDetectionRun(run_type="periodic", status="running") with the        *)
(* column defaults                                                         *)
NewRun ==
    [run_type |-> "periodic",
     status |-> "running",
     messages_scanned |-> 0,
     scams_detected |-> 0,
     detection_breakdown |-> [by_risk_level |-> <<>>, by_method |-> <<>>],
     error_message |-> NoError]

(* _count_by_field of periodic_scan.py: a dict, value -> count, of the     *)
(* values that occur                                                       *)
_count_by_field(items, field) ==
    [v \in {items[i][field] : i \in DOMAIN items} |->
        Cardinality({i \in DOMAIN items : items[i][field] = v})]

----------------------------------------------------------------------------
(* periodic_scan_job: app/jobs/periodic_scan.py *)

IdleScan ==
    [pc |-> "idle", run |-> 0, messages |-> <<>>, detection_results |-> <<>>,
     exc |-> NoError, handled |-> FALSE, inserted |-> 0]

(* The loop of lines 47-54: a message whose analysis raises is skipped *)
RECURSIVE ClassifyAllAbort(_)
ClassifyAllAbort(messages) ==
    IF messages = <<>> \/ Head(messages).malformed THEN <<>>
    ELSE analyze_message(Head(messages)) \o ClassifyAllAbort(Tail(messages))

RECURSIVE ClassifyAll(_)
ClassifyAll(messages) ==
    IF messages = <<>> THEN <<>>
    ELSE IF Head(messages).malformed THEN ClassifyAll(Tail(messages))
    ELSE analyze_message(Head(messages)) \o ClassifyAll(Tail(messages))

(* The loop of lines 59-90: the rows db.add() makes pending *)
RECURSIVE WriteFlags(_, _, _, _)
WriteFlags(results, rows, pending, day) ==
    IF results = <<>> THEN pending
    ELSE IF ExistingFlag(rows, pending, Head(results).sms_id)
         THEN WriteFlags(Tail(results), rows, pending, day)
         ELSE WriteFlags(Tail(results), rows,
                         Append(pending, NewScamFlag(Head(results), day)), day)

(* Lines 18-29: the run is created and committed in state running.  A      *)
(* commit can raise when the database cannot be reached; the rollback then *)
(* drops the pending run from the session.                                 *)
ScanStart(s) ==
    /\ scan[s].pc = "start"
    /\ \E ok \in BOOLEAN :
        IF ok
        THEN /\ runs' = Append(runs, NewRun)
             /\ scan' = [scan EXCEPT ![s].pc = "fetch", ![s].run = Len(runs) + 1]
        ELSE /\ runs' = runs
             /\ scan' = [scan EXCEPT ![s].pc = "except",
                                     ![s].exc = OperationalError]
    /\ UNCHANGED <<flags, reports, nightly, instances, skipped, today, analysis,
                   settings, detvars, winvars>>

(* Lines 31-39: the await of get_all_messages_in_range returns a batch or  *)
(* raises the HTTP error of portal_api.py line 68.                         *)
Fetch(s, batches) ==
    /\ scan[s].pc = "fetch"
    /\ \/ \E batch \in batches :
            scan' = [scan EXCEPT ![s].pc = "classify", ![s].messages = batch]
       \/ scan' = [scan EXCEPT ![s].pc = "except", ![s].exc = HTTPError]
    /\ UNCHANGED <<flags, runs, reports, nightly, instances, skipped, today, analysis,
                   settings, detvars>>

ScanFetch(s) == Fetch(s, Batches) /\ UNCHANGED winvars

(* The task is cancelled while it is suspended in the await of the fetch,  *)
(* the only await of the job.  asyncio.CancelledError is a BaseException:  *)
(* "except Exception" (line 110) does not catch it, only the finally       *)
(* clause (db.close()) runs.                                               *)
ScanCancel(s) ==
    /\ scan[s].pc = "fetch"
    /\ scan' = [scan EXCEPT ![s].pc = "cancelled"]
    /\ UNCHANGED <<flags, runs, reports, nightly, instances, skipped, today, analysis,
                   settings, detvars, winvars>>

(* Lines 43-56 *)
ScanClassify(s) ==
    /\ scan[s].pc = "classify"
    /\ scan' = [scan EXCEPT ![s].pc = "write",
                            ![s].detection_results = ClassifyAll(scan[s].messages)]
    /\ UNCHANGED <<flags, runs, reports, nightly, instances, skipped, today, analysis,
                   settings, detvars, winvars>>

(* Lines 58-92: the flags are added to the session, then committed in one  *)
(* transaction.  A violated constraint or an unreachable database rolls    *)
(* all of them back.                                                       *)
ScanWrite(s) ==
    /\ scan[s].pc = "write"
    /\ LET pending == WriteFlags(scan[s].detection_results, flags, <<>>, today)
       IN  \E ok \in BOOLEAN :
            IF ok /\ UniqueSmsId(flags, pending)
            THEN /\ flags' = flags \o pending
                 /\ scan' = [scan EXCEPT ![s].pc = "finalize",
                                         ![s].inserted = Len(pending)]
            ELSE /\ flags' = flags
                 /\ scan' = [scan EXCEPT ![s].pc = "except",
                                 ![s].exc = IF ok THEN IntegrityError
                                                  ELSE OperationalError]
    /\ UNCHANGED <<runs, reports, nightly, instances, skipped, today, analysis,
                   settings, detvars, winvars>>

(* Lines 94-103 *)
ScanFinalize(s) ==
    /\ scan[s].pc = "finalize"
    /\ LET r == scan[s].run
           results == scan[s].detection_results
       IN  \E ok \in BOOLEAN :
            IF ok
            THEN /\ runs' = [runs EXCEPT
                        ![r].status = "completed",
                        ![r].messages_scanned = Len(scan[s].messages),
                        ![r].scams_detected = Len(results),
                        ![r].detection_breakdown =
                            [by_risk_level |-> _count_by_field(results, "risk_level"),
                             by_method |-> _count_by_field(results, "detection_method")]]
                 /\ scan' = [scan EXCEPT ![s].pc = "returned"]
            ELSE /\ runs' = runs
                 /\ scan' = [scan EXCEPT ![s].pc = "except",
                                         ![s].exc = OperationalError]
    /\ UNCHANGED <<flags, reports, nightly, instances, skipped, today, analysis,
                   settings, detvars, winvars>>

(* Lines 110-116: the handler marks the run failed, commits and re-raises. *)
(* Its commit goes through the same session: when it raises too, the run   *)
(* row keeps what was committed last and the new exception propagates.     *)
(* A run whose first commit failed is no longer in the session.            *)
ScanExcept(s) ==
    /\ scan[s].pc = "except"
    /\ LET r == scan[s].run
       IN  \E ok \in BOOLEAN :
            IF r = 0
            THEN /\ runs' = runs
                 /\ scan' = [scan EXCEPT ![s].pc = "raised"]
            ELSE IF ok
            THEN /\ runs' = [runs EXCEPT ![r].status = "failed",
                                         ![r].error_message = scan[s].exc]
                 /\ scan' = [scan EXCEPT ![s].pc = "raised", ![s].handled = TRUE]
            ELSE /\ runs' = runs
                 /\ scan' = [scan EXCEPT ![s].pc = "raised",
                                         ![s].exc = OperationalError]
    /\ UNCHANGED <<flags, reports, nightly, instances, skipped, today, analysis,
                   settings, detvars, winvars>>

----------------------------------------------------------------------------
(* The scheduler: app/jobs/scheduler.py.  A job is added with              *)
(* max_instances=1: a trigger that fires while that many instances run is  *)
(* skipped.                                                                *)

CanSubmitAlways(running) == TRUE

CanSubmit(running) == running < max_instances

IdleSlot(procs) == CHOOSE s \in Slots : procs[s].pc = "idle"

Submit ==
    /\ Len(runs) < MaxRuns
    /\ IF CanSubmit(instances["periodic_scan"])
       THEN /\ \E s \in Slots : scan[s].pc = "idle"
            /\ scan' = [scan EXCEPT ![IdleSlot(scan)].pc = "start"]
            /\ instances' = [instances EXCEPT !["periodic_scan"] = @ + 1]
            /\ skipped' = skipped
       ELSE /\ skipped' = [skipped EXCEPT !["periodic_scan"] = TRUE]
            /\ UNCHANGED <<scan, instances>>
    /\ UNCHANGED <<flags, runs, reports, nightly, today, analysis,
                   settings, detvars>>

(* A trigger of periodic_scan fires, at any time *)
ScanTrigger == Submit /\ UNCHANGED winvars

(* The job's coroutine has ended (returned, raised or was cancelled): the  *)
(* executor releases the instance.                                         *)
ScanDone(s) ==
    /\ scan[s].pc \in {"returned", "raised", "cancelled"}
    /\ scan' = [scan EXCEPT ![s] = IdleScan]
    /\ instances' = [instances EXCEPT !["periodic_scan"] = @ - 1]
    /\ skipped' = [skipped EXCEPT !["periodic_scan"] = FALSE]
    /\ UNCHANGED <<flags, runs, reports, nightly, today, analysis,
                   settings, detvars, winvars>>

----------------------------------------------------------------------------
(* nightly_summary_job: app/jobs/nightly_summary.py *)

IdleNightly ==
    [pc |-> "idle", report |-> <<>>, exc |-> NoError,
     scam_flags |-> <<>>, reviewed_by_ai |-> <<>>, insights |-> <<>>]

SelectSeq2(rows, day) ==
    SelectSeq(rows, LAMBDA f : f.flagged_at = day)

(* Lines 23-36: the flags whose flagged_at falls on the report date *)
FlagsOfDay(rows, day) == SelectSeq2(rows, day)

(* Lines 45-53.  A rate is the fraction num/den of two integers, so that   *)
(* no quotient is rounded.                                                 *)
Rate(num, den) == [num |-> num, den |-> den]

FalsePositiveRate(scam_flags) ==
    LET reviewed_flags == SelectSeq(scam_flags, LAMBDA f : f.reviewed)
        false_positives ==
            SelectSeq(reviewed_flags, LAMBDA f : f.review_status = "false_positive")
    IN  IF reviewed_flags # <<>>
        THEN Rate(Len(false_positives) * 100, Len(reviewed_flags))
        ELSE Rate(0, 1)

(* s[:n] *)
Prefix(s, n) == SubSeq(s, 1, Min(n, Len(s)))

(* Lines 62-66 *)
HighRiskUnreviewedNoLimit(scam_flags) ==
    SelectSeq(scam_flags,
              LAMBDA f : f.risk_level \in {"CRITICAL", "HIGH"} /\ ~f.reviewed)

HighRiskUnreviewed(scam_flags) ==
    Prefix(SelectSeq(scam_flags,
                     LAMBDA f : f.risk_level \in {"CRITICAL", "HIGH"} /\ ~f.reviewed),
           settings.max_ai_reviews_daily)

(* What analyze_scam returns: anthropic_client.py 58-66 when the call of   *)
(* the API succeeds, 70-74 when it raises.  A confidence is in hundredths; *)
(* a key the mapping does not have reads as None with get().               *)
MockInsight ==
    [is_scam |-> "True", confidence |-> 85, scam_type |-> "phishing",
     new_pattern_detected |-> "False", pattern_regex |-> "None"]

ErrorInsight ==
    [is_scam |-> "None", confidence |-> 0, scam_type |-> "None",
     new_pattern_detected |-> "None", pattern_regex |-> "None"]

(* Answers of the reviewer that report a new pattern, once the connector   *)
(* parses them (comment of lines 56-57)                                    *)
ParsedInsights ==
    {[is_scam |-> "True", confidence |-> c, scam_type |-> "smishing",
      new_pattern_detected |-> "True", pattern_regex |-> "regex"] : c \in {80, 90}}

Insights == {MockInsight, ErrorInsight} \cup ParsedInsights

(* Lines 75-97: the pattern_info of the flags whose insight reports a new  *)
(* pattern with a confidence above 0.8                                     *)
RECURSIVE NewPatterns(_, _)
NewPatterns(selected, insights) ==
    IF selected = <<>> THEN <<>>
    ELSE LET flag == Head(selected)
             insight == Head(insights)
         IN  (IF insight.new_pattern_detected = "True" /\ insight.confidence > 80
              THEN << [pattern |-> insight.pattern_regex,
                       scam_type |-> insight.scam_type,
                       confidence |-> insight.confidence,
                       example_message |-> Prefix(flag.message_text, 100)] >>
              ELSE <<>>)
             \o NewPatterns(Tail(selected), Tail(insights))

(* The summary texts generate_summary returns: anthropic_client.py 114-120 *)
Summaries == {"summary", "Error generating summary"}

(* _generate_action_items: the recommendations of the items, in order.     *)
(* false_positive_rate > 0.5 is num/den > 1/2.                             *)
_generate_action_items(total_scams, false_positive_rate, new_patterns) ==
    (IF total_scams > 100
     THEN <<"Review detection patterns and consider additional filters">>
     ELSE <<>>)
    \o (IF 2 * false_positive_rate.num > false_positive_rate.den
        THEN <<"Review and tune detection thresholds">>
        ELSE <<>>)
    \o (IF Len(new_patterns) > 0
        THEN <<"Review and integrate new patterns into detector">>
        ELSE <<>>)

(* NightlyScamReport(...) of lines 112-122, with the metrics of 38-53 *)
NewReport(report_date, scam_flags, new_patterns, ai_summary) ==
    [report_date |-> report_date,
     total_scams_detected |-> Len(scam_flags),
     scams_by_risk_level |-> _count_by_field(scam_flags, "risk_level"),
     detection_methods |-> _count_by_field(scam_flags, "detection_method"),
     false_positive_rate |-> FalsePositiveRate(scam_flags),
     new_patterns_learned |-> new_patterns,
     ai_summary |-> ai_summary,
     action_items |-> _generate_action_items(Len(scam_flags),
                                             FalsePositiveRate(scam_flags),
                                             new_patterns)]

(* The constraint unique=True on nightly_scam_reports.report_date *)
UniqueReportDateNoCheck(rows, report) == TRUE

UniqueReportDate(rows, report) ==
    \A i \in DOMAIN rows : rows[i].report_date # report.report_date

(* Lines 19-122: yesterday's flags are read, the high-risk unreviewed ones  *)
(* are sent to the reviewer one by one, whatever it answers, the summary   *)
(* is asked for and the report is built.                                   *)
NightlyBuildAbort(s) ==
    /\ nightly[s].pc = "start"
    /\ LET scam_flags == FlagsOfDay(flags, today - 1)
           high_risk_unreviewed == HighRiskUnreviewed(scam_flags)
       IN  \E insights \in [DOMAIN high_risk_unreviewed -> Insights],
              ai_summary \in Summaries :
            IF \/ \E n \in DOMAIN insights : insights[n] = ErrorInsight
               \/ ai_summary = "Error generating summary"
            THEN nightly' = [nightly EXCEPT ![s].pc = "raised",
                                            ![s].exc = "APIError"]
            ELSE nightly' = [nightly EXCEPT
                    ![s].pc = "save",
                    ![s].scam_flags = scam_flags,
                    ![s].reviewed_by_ai = high_risk_unreviewed,
                    ![s].insights = insights,
                    ![s].report = NewReport(today - 1, scam_flags,
                                            NewPatterns(high_risk_unreviewed, insights),
                                            ai_summary)]
    /\ UNCHANGED <<flags, runs, reports, scan, instances, skipped, today, analysis,
                   settings, detvars, winvars>>

NightlyBuild(s) ==
    /\ nightly[s].pc = "start"
    /\ LET scam_flags == FlagsOfDay(flags, today - 1)
           high_risk_unreviewed == HighRiskUnreviewed(scam_flags)
       IN  \E insights \in [DOMAIN high_risk_unreviewed -> Insights],
              ai_summary \in Summaries :
            nightly' = [nightly EXCEPT
                ![s].pc = "save",
                ![s].scam_flags = scam_flags,
                ![s].reviewed_by_ai = high_risk_unreviewed,
                ![s].insights = insights,
                ![s].report = NewReport(today - 1, scam_flags,
                                        NewPatterns(high_risk_unreviewed, insights),
                                        ai_summary)]
    /\ UNCHANGED <<flags, runs, reports, scan, instances, skipped, today, analysis,
                   settings, detvars, winvars>>

(* Lines 124-136: the report is committed; on any exception the job logs   *)
(* and re-raises, nothing of the report is kept.                           *)
NightlySave(s) ==
    /\ nightly[s].pc = "save"
    /\ \E ok \in BOOLEAN :
        IF ok /\ UniqueReportDate(reports, nightly[s].report)
        THEN /\ reports' = Append(reports, nightly[s].report)
             /\ nightly' = [nightly EXCEPT ![s].pc = "returned"]
        ELSE /\ reports' = reports
             /\ nightly' = [nightly EXCEPT ![s].pc = "raised",
                                ![s].exc = IF ok THEN IntegrityError
                                                 ELSE OperationalError]
    /\ UNCHANGED <<flags, runs, scan, instances, skipped, today, analysis,
                   settings, detvars, winvars>>

NightlyTrigger ==
    /\ IF CanSubmit(instances["nightly_summary"])
       THEN /\ \E s \in Slots : nightly[s].pc = "idle"
            /\ nightly' = [nightly EXCEPT ![IdleSlot(nightly)].pc = "start"]
            /\ instances' = [instances EXCEPT !["nightly_summary"] = @ + 1]
            /\ skipped' = skipped
       ELSE /\ skipped' = [skipped EXCEPT !["nightly_summary"] = TRUE]
            /\ UNCHANGED <<nightly, instances>>
    /\ UNCHANGED <<flags, runs, reports, scan, today, analysis,
                   settings, detvars, winvars>>

NightlyDone(s) ==
    /\ nightly[s].pc \in {"returned", "raised"}
    /\ nightly' = [nightly EXCEPT ![s] = IdleNightly]
    /\ instances' = [instances EXCEPT !["nightly_summary"] = @ - 1]
    /\ skipped' = [skipped EXCEPT !["nightly_summary"] = FALSE]
    /\ UNCHANGED <<flags, runs, reports, scan, today, analysis,
                   settings, detvars, winvars>>

(* Midnight: date.today() and the database's now() move to the next day *)
Tick ==
    /\ today < MaxDay
    /\ today' = today + 1
    /\ UNCHANGED <<flags, runs, reports, scan, nightly, instances, skipped,
                   analysis, settings, detvars, winvars>>

(* One call of IntegratedScamDetector.analyze_message *)
Analyze ==
    /\ ~analysis.called
    /\ analysis' = [analysis EXCEPT !.called = TRUE,
                                    !.result = analyze_message(analysis.msg)]
    /\ UNCHANGED <<flags, runs, reports, scan, nightly, instances, skipped, today,
                   settings, detvars, winvars>>

(* The texts given to the rule library: up to MaxWords of these words, one *)
(* after the other                                                         *)
Words ==
    { <<"s", "u", "s", "p", "e", "n", "d", " ">>,
      <<"a", "c", "c", "o", "u", "n", "t", " ">>,
      <<"C", "l", "i", "c", "k", " ">>,
      <<"h", "e", "r", "e", " ">>,
      <<"h", "e", "l", "l", "o", " ">> }

RECURSIVE Concat(_)
Concat(seqs) == IF seqs = <<>> THEN <<>> ELSE Head(seqs) \o Concat(Tail(seqs))

Texts == {Concat(w) : w \in SeqsUpTo(Words, MaxWords)}

NoCheck == [message |-> <<>>, result |-> <<>>, fresh |-> FALSE]

(* The number of rules add_pattern has added to the built-in table *)
RECURSIVE NumRules(_)
NumRules(table) ==
    IF table = <<>> THEN 0 ELSE Len(Head(table).rules) + NumRules(Tail(table))

(* One call of PatternMatcher.add_pattern *)
AddPattern ==
    /\ NumRules(patterns) < NumRules(_load_patterns) + MaxAdded
    /\ \E category \in {"phishing", "custom"}, confidence \in {0, 6} :
        patterns' = add_pattern(patterns, category,
                                {Alt1({<<"h", "e", "l", "l", "o">>})}, confidence,
                                "added")
    /\ pcheck' = [pcheck EXCEPT !.fresh = FALSE]
    /\ UNCHANGED <<flags, runs, reports, scan, nightly, instances, skipped, today,
                   analysis, settings, known_scam_numbers,
                   winvars>>

(* One call of PatternMatcher.check on the text *)
PatternCheck ==
    /\ pcheck' = [pcheck EXCEPT
                      !.result = <<PatternMatcher_check(patterns, pcheck.message)>>,
                      !.fresh = TRUE]
    /\ UNCHANGED <<flags, runs, reports, scan, nightly, instances, skipped, today,
                   analysis, settings, patterns, known_scam_numbers,
                   winvars>>

(* The text of Scenario A *)
ScenarioA ==
    <<"Y", "o", "u", "r", " ", "a", "c", "c", "o", "u", "n", "t", " ", "h",
    "a", "s", " ", "b", "e", "e", "n", " ", "s", "u", "s", "p", "e", "n",
    "d", "e", "d", ",", " ", "c", "l", "i", "c", "k", " ", "h", "e", "r",
    "e", " ", "t", "o", " ", "v", "e", "r", "i", "f", "y">>

(* Texts given to the coordinator: at and around the bounds of the         *)
(* conditions of the behavioral scorer                                     *)
CoordinatorTexts ==
    { ScenarioA,
      <<"h", "i">>,
      <<"c", "l", "i", "c", "k", " ", "h", "t", "t", "p">>,
      <<"C", "L", "I", "C", "K", " ", "N", "O", "W", "!", "!", "!">>,
      <<"W", "I", "N", "N", "E", "R", "L", "O", "C", "K", "E", "D", "H", "T",
        "T", "P", "!", "!", "!">>,
      <<"c", "o", "n", "g", "r", "a", "t", "u", "l", "a", "t", "i", "o", "n",
        "s", " ", "w", "i", "n", "n", "e", "r">>,
      <<"o", "k", "!", "!", "!">>,
      <<"c", "l", "i", "c", "k", " ", "h", "e", "r", "e", " ", "r", "i", "g",
        "h", "t", " ", "n", "o", "w">>,
      <<"H", "E", "L", "L", "O", "T", "H", "E", "R", "E">>,
      <<"H", "E", "L", "L", "O", " ", "T", "H", "E", "R", "E">>,
      <<"A", "B", "C", "D", "E", "F", "a", "b", "c", "d", "e", "f">> }

(* Sender addresses: 11 digits, 12 digits, 11 digits with dashes *)
Number3 == <<"+", "4", "4", "-", "7", "7", "0", "0", "-", "9", "0", "0", "1", "2",
        "3">>
Number4 == <<"1", "-", "5", "5", "5", "-", "1", "2", "3", "-", "0", "0", "0", "2">>

Numbers == {Number1, Number3, Number4}

(* One call of BehavioralDetector.mark_number_as_scam *)
MarkNumber ==
    /\ \E n \in Numbers : known_scam_numbers' = mark_number_as_scam(known_scam_numbers, n)
    /\ UNCHANGED <<flags, runs, reports, scan, nightly, instances, skipped, today,
                   analysis, settings, patterns, pcheck,
                   winvars>>

(* One call of analyze_message of a detector with the rule table and the   *)
(* known numbers of the state: lines 50-57 call the two detectors, the     *)
(* rest combines what they return.                                         *)
AnalyzeMessage ==
    /\ ~analysis.called
    /\ LET msg == Detected(analysis.msg, patterns, known_scam_numbers)
       IN  analysis' = [msg |-> msg, called |-> TRUE, result |-> analyze_message(msg)]
    /\ UNCHANGED <<flags, runs, reports, scan, nightly, instances, skipped, today,
                   settings, detvars, winvars>>

----------------------------------------------------------------------------
(* Time: the interval trigger of scheduler.py and the time range of        *)
(* periodic_scan.py, in minutes                                            *)

periodic_scan_interval_minutes == 15

(* timedelta(minutes=15), line 33 *)
window_minutes == 15

ClockStep == 5
MaxClock == 30

(* The service starts at minute 0; the interval trigger first fires one    *)
(* interval later.                                                         *)
NoWindows ==
    /\ clock = 0
    /\ next_fire = periodic_scan_interval_minutes
    /\ portal = {}
    /\ windows = [r \in 1..MaxRuns |-> <<>>]

(* Time passes.  A trigger that is due fires at its fire time. *)
ClockTick ==
    /\ clock < next_fire
    /\ clock + ClockStep <= MaxClock
    /\ clock' = clock + ClockStep
    /\ UNCHANGED <<flags, runs, reports, scan, nightly, instances, skipped, today,
                   analysis, settings, detvars, next_fire, portal, windows>>

(* A customer sends a message: the portal stores it with inserted_at *)
PortalSend ==
    /\ Cardinality(portal) < MaxBatch
    /\ \E m \in Messages :
          /\ \A p \in portal : p.id # m.id
          /\ portal' = portal \cup {[id |-> m.id, inserted_at |-> clock]}
    /\ UNCHANGED <<flags, runs, reports, scan, nightly, instances, skipped, today,
                   analysis, settings, detvars, clock, next_fire, windows>>

(* IntervalTrigger(minutes=settings.periodic_scan_interval_minutes): the   *)
(* trigger fires at its fire time and the next fire time is one interval   *)
(* later, whether the job was submitted or skipped.                        *)
IntervalTrigger ==
    /\ clock >= next_fire
    /\ next_fire' = next_fire + periodic_scan_interval_minutes
    /\ Submit
    /\ UNCHANGED <<clock, portal, windows>>

(* filter[start-inserted_at], filter[end-inserted_at]: the stored messages *)
(* of the time range, each once                                            *)
MessagesInRange(start_datetime, end_datetime) ==
    LET ids == {p.id : p \in {x \in portal : /\ start_datetime <= x.inserted_at
                                              /\ x.inserted_at <= end_datetime}}
    IN  {q \in SeqsUpTo({m \in Messages : m.id \in ids}, Cardinality(ids)) :
            /\ Len(q) = Cardinality(ids)
            /\ \A i, j \in DOMAIN q : q[i].id = q[j].id => i = j}

(* Lines 31-39 with the clock: the time range ends now and starts 15       *)
(* minutes earlier.                                                        *)
ScanFetchWindow(s) ==
    LET end_time == clock
        start_time == end_time - window_minutes
    IN  /\ Fetch(s, MessagesInRange(start_time, end_time))
        /\ windows' = [windows EXCEPT ![scan[s].run] =
                            [start_time |-> start_time, end_time |-> end_time]]
        /\ UNCHANGED <<clock, next_fire, portal>>

----------------------------------------------------------------------------
(* The service: app/main.py starts the scheduler; no job runs yet *)

NoCall ==
    [msg |-> CHOOSE m \in Messages : m.id = 1, called |-> FALSE, result |-> <<>>]

Init ==
    /\ settings = DefaultSettings
    /\ patterns = _load_patterns
    /\ pcheck = NoCheck
    /\ known_scam_numbers = {}
    /\ NoWindows
    /\ flags = <<>>
    /\ runs = <<>>
    /\ reports = <<>>
    /\ scan = [s \in Slots |-> IdleScan]
    /\ nightly = [s \in Slots |-> IdleNightly]
    /\ instances = [j \in JobIds |-> 0]
    /\ skipped = [j \in JobIds |-> FALSE]
    /\ today = 1
    /\ analysis = NoCall

Next ==
    \/ ScanTrigger
    \/ \E s \in Slots : ScanStart(s)
    \/ \E s \in Slots : ScanFetch(s)
    \/ \E s \in Slots : ScanCancel(s)
    \/ \E s \in Slots : ScanClassify(s)
    \/ \E s \in Slots : ScanWrite(s)
    \/ \E s \in Slots : ScanFinalize(s)
    \/ \E s \in Slots : ScanExcept(s)
    \/ \E s \in Slots : ScanDone(s)
    \/ NightlyTrigger
    \/ \E s \in Slots : NightlyBuild(s)
    \/ \E s \in Slots : NightlySave(s)
    \/ \E s \in Slots : NightlyDone(s)
    \/ Tick

(* The whole service *)
Spec == Init /\ [][Next]_vars

(* The periodic scan and its trigger *)
NextScan ==
    \/ ScanTrigger
    \/ \E s \in Slots : ScanStart(s)
    \/ \E s \in Slots : ScanFetch(s)
    \/ \E s \in Slots : ScanCancel(s)
    \/ \E s \in Slots : ScanClassify(s)
    \/ \E s \in Slots : ScanWrite(s)
    \/ \E s \in Slots : ScanFinalize(s)
    \/ \E s \in Slots : ScanExcept(s)
    \/ \E s \in Slots : ScanDone(s)

SpecScan == Init /\ [][NextScan]_vars

(* The scheduler with both jobs on one day; the portal returns at most one *)
(* message per fetch.                                                      *)
ShortBatches == {<<>>} \cup {<<m>> : m \in Messages}

NextSched ==
    \/ ScanTrigger
    \/ \E s \in Slots : ScanStart(s)
    \/ \E s \in Slots : Fetch(s, ShortBatches) /\ UNCHANGED winvars
    \/ \E s \in Slots : ScanCancel(s)
    \/ \E s \in Slots : ScanClassify(s)
    \/ \E s \in Slots : ScanWrite(s)
    \/ \E s \in Slots : ScanFinalize(s)
    \/ \E s \in Slots : ScanExcept(s)
    \/ \E s \in Slots : ScanDone(s)
    \/ NightlyTrigger
    \/ \E s \in Slots : NightlyBuild(s)
    \/ \E s \in Slots : NightlySave(s)
    \/ \E s \in Slots : NightlyDone(s)

SpecSched == Init /\ [][NextSched]_vars

(* The nightly summary over the tables the scans of day 1 can have left:   *)
(* one flag per scam message, in any order.                                *)
ScamResults ==
    {analyze_message(m)[1] :
        m \in {x \in Messages : ~x.malformed /\ analyze_message(x) # <<>>}}

FlagTables ==
    {t \in SeqsUpTo({NewScamFlag(r, 1) : r \in ScamResults}, Cardinality(ScamResults)) :
        UniqueSmsId(<<>>, t)}

InitNightly ==
    /\ settings = DefaultSettings
    /\ patterns = _load_patterns
    /\ pcheck = NoCheck
    /\ known_scam_numbers = {}
    /\ NoWindows
    /\ flags \in FlagTables
    /\ runs = <<>>
    /\ reports = <<>>
    /\ scan = [s \in Slots |-> IdleScan]
    /\ nightly = [s \in Slots |-> IdleNightly]
    /\ instances = [j \in JobIds |-> 0]
    /\ skipped = [j \in JobIds |-> FALSE]
    /\ today = 1
    /\ analysis = NoCall

NextNightly ==
    \/ NightlyTrigger
    \/ \E s \in Slots : NightlyBuild(s)
    \/ \E s \in Slots : NightlySave(s)
    \/ \E s \in Slots : NightlyDone(s)
    \/ Tick

SpecNightly == InitNightly /\ [][NextNightly]_vars

(* The nightly summary of one day, over the flags of up to MaxFlags scam   *)
(* messages of that day, each in any state the review process leaves it    *)
(* in, under the default and under a small limit of reviews.               *)
AllScamResults ==
    {analyze_message(m)[1] :
        m \in {x \in Messages \cup {Detected(e, _load_patterns, {}) : e \in EarlierMessages} :
                  ~x.malformed /\ analyze_message(x) # <<>>}}

(* The review of a flag sets reviewed and review_status *)
ReviewStates ==
    {[reviewed |-> FALSE, review_status |-> "pending"],
     [reviewed |-> TRUE, review_status |-> "confirmed_scam"],
     [reviewed |-> TRUE, review_status |-> "false_positive"]}

Reviewed(flag, review) ==
    [flag EXCEPT !.reviewed = review.reviewed,
                 !.review_status = review.review_status]

ReviewedTables ==
    {t \in SeqsUpTo({Reviewed(NewScamFlag(r, 1), v) :
                        r \in AllScamResults, v \in ReviewStates}, MaxFlags) :
        UniqueSmsId(<<>>, t)}

ReviewLimits == {1, max_ai_reviews_daily}

InitReport ==
    /\ \E n \in ReviewLimits :
          settings = [DefaultSettings EXCEPT !.max_ai_reviews_daily = n]
    /\ patterns = _load_patterns
    /\ pcheck = NoCheck
    /\ known_scam_numbers = {}
    /\ NoWindows
    /\ flags \in ReviewedTables
    /\ runs = <<>>
    /\ reports = <<>>
    /\ scan = [s \in Slots |-> IdleScan]
    /\ nightly = [s \in Slots |-> IdleNightly]
    /\ instances = [j \in JobIds |-> 0]
    /\ skipped = [j \in JobIds |-> FALSE]
    /\ today = 2
    /\ analysis = NoCall

NextReport ==
    \/ NightlyTrigger
    \/ \E s \in Slots : NightlyBuild(s)
    \/ \E s \in Slots : NightlySave(s)
    \/ \E s \in Slots : NightlyDone(s)

SpecReport == InitReport /\ [][NextReport]_vars

(* The coordinator on every pair of detector results, under each           *)
(* configuration                                                           *)
InitDetect ==
    /\ settings \in SettingsChoices
    /\ patterns = _load_patterns
    /\ pcheck = NoCheck
    /\ known_scam_numbers = {}
    /\ NoWindows
    /\ flags = <<>>
    /\ runs = <<>>
    /\ reports = <<>>
    /\ scan = [s \in Slots |-> IdleScan]
    /\ nightly = [s \in Slots |-> IdleNightly]
    /\ instances = [j \in JobIds |-> 0]
    /\ skipped = [j \in JobIds |-> FALSE]
    /\ today = 1
    /\ \E p \in PatternResults, b \in BehavioralResults :
        analysis = [msg |-> [id |-> 1, malformed |-> FALSE, message |-> <<>>,
                             host_number |-> Number1, pat |-> p, beh |-> b],
                    called |-> FALSE, result |-> <<>>]

SpecDetect == InitDetect /\ [][Analyze]_vars

(* The rule library: any text, rules added and the text evaluated in any   *)
(* order                                                                   *)
InitMatch ==
    /\ settings = DefaultSettings
    /\ patterns = _load_patterns
    /\ \E m \in Texts : pcheck = [NoCheck EXCEPT !.message = m]
    /\ known_scam_numbers = {}
    /\ NoWindows
    /\ flags = <<>>
    /\ runs = <<>>
    /\ reports = <<>>
    /\ scan = [s \in Slots |-> IdleScan]
    /\ nightly = [s \in Slots |-> IdleNightly]
    /\ instances = [j \in JobIds |-> 0]
    /\ skipped = [j \in JobIds |-> FALSE]
    /\ today = 1
    /\ analysis = NoCall

NextMatch == AddPattern \/ PatternCheck

SpecMatch == InitMatch /\ [][NextMatch]_vars

(* The periodic scan under the clock: messages are sent at any time, the   *)
(* interval trigger fires every 15 minutes.                                *)
NextWindow ==
    \/ ClockTick
    \/ PortalSend
    \/ IntervalTrigger
    \/ \E s \in Slots : ScanStart(s)
    \/ \E s \in Slots : ScanFetchWindow(s)
    \/ \E s \in Slots : ScanCancel(s)
    \/ \E s \in Slots : ScanClassify(s)
    \/ \E s \in Slots : ScanWrite(s)
    \/ \E s \in Slots : ScanFinalize(s)
    \/ \E s \in Slots : ScanExcept(s)
    \/ \E s \in Slots : ScanDone(s)

SpecWindow == Init /\ [][NextWindow]_vars

(* The coordinator on texts: any text from any sender, numbers marked and  *)
(* the message analyzed in any order                                       *)
InitCoordinator ==
    /\ settings = DefaultSettings
    /\ patterns = _load_patterns
    /\ pcheck = NoCheck
    /\ known_scam_numbers = {}
    /\ NoWindows
    /\ flags = <<>>
    /\ runs = <<>>
    /\ reports = <<>>
    /\ scan = [s \in Slots |-> IdleScan]
    /\ nightly = [s \in Slots |-> IdleNightly]
    /\ instances = [j \in JobIds |-> 0]
    /\ skipped = [j \in JobIds |-> FALSE]
    /\ today = 1
    /\ \E t \in CoordinatorTexts, n \in Numbers :
          analysis = [msg |-> PortalMessage(1, t, n), called |-> FALSE,
                      result |-> <<>>]

NextCoordinator == MarkNumber \/ AnalyzeMessage

SpecCoordinator == InitCoordinator /\ [][NextCoordinator]_vars

(* IntegratedScamDetector(): a new rule library with the built-in table    *)
(* and a new behavioral scorer, whose __init__ sets known_scam_numbers to   *)
(* set()                                                                   *)
NewDetector == [patterns |-> _load_patterns, known_scam_numbers |-> {}]

TextHi == <<"h", "i">>

TextClick ==
    <<"c", "l", "i", "c", "k", " ", "h", "e", "r", "e", " ", "r", "i", "g", "h",
      "t", " ", "n", "o", "w">>

(* Messages of the senders that can be marked: no rule matches "hi" *)
SenderMessages ==
    { PortalMessage(6, TextHi, Number1),
      PortalMessage(7, TextHi, Number3),
      PortalMessage(8, TextClick, Number1) }

(* Line 44: every invocation of the job makes its own detector, and the    *)
(* loop of lines 47-54 evaluates the fetched messages with it.             *)
SenderBatches ==
    {<<>>} \cup {<<Detected(m, NewDetector.patterns, NewDetector.known_scam_numbers)>> :
                    m \in SenderMessages}

(* A detector on which numbers are marked and messages evaluated, and the  *)
(* periodic scans that run beside it                                       *)
InitKnown ==
    /\ settings = DefaultSettings
    /\ patterns = _load_patterns
    /\ pcheck = NoCheck
    /\ known_scam_numbers = {}
    /\ NoWindows
    /\ flags = <<>>
    /\ runs = <<>>
    /\ reports = <<>>
    /\ scan = [s \in Slots |-> IdleScan]
    /\ nightly = [s \in Slots |-> IdleNightly]
    /\ instances = [j \in JobIds |-> 0]
    /\ skipped = [j \in JobIds |-> FALSE]
    /\ today = 1
    /\ \E m \in SenderMessages :
          analysis = [msg |-> m, called |-> FALSE, result |-> <<>>]

NextKnown ==
    \/ MarkNumber
    \/ AnalyzeMessage
    \/ ScanTrigger
    \/ \E s \in Slots : ScanStart(s)
    \/ \E s \in Slots : Fetch(s, SenderBatches) /\ UNCHANGED winvars
    \/ \E s \in Slots : ScanCancel(s)
    \/ \E s \in Slots : ScanClassify(s)
    \/ \E s \in Slots : ScanWrite(s)
    \/ \E s \in Slots : ScanFinalize(s)
    \/ \E s \in Slots : ScanExcept(s)
    \/ \E s \in Slots : ScanDone(s)

SpecKnown == InitKnown /\ [][NextKnown]_vars

----------------------------------------------------------------------------
(* Properties *)

Ended(s) == scan[s].pc \in {"returned", "raised", "cancelled"}

Suspicious(m) == m.pat.is_match \/ m.beh.is_suspicious

\* C1: after any sequence of periodic scans, whatever batches they fetch, the
\* table scam_flags holds at most one row per message identifier; a step that
\* changes the table keeps every existing row and adds rows only for
\* identifiers that had no row.
C1_OneFlagPerMessage ==
    /\ [](\A i, j \in DOMAIN flags : flags[i].sms_id = flags[j].sms_id => i = j)
    /\ [][ /\ Len(flags') >= Len(flags)
           /\ \A i \in DOMAIN flags : flags'[i] = flags[i]
           /\ \A k \in DOMAIN flags' : \A i \in DOMAIN flags :
                k > Len(flags) => flags'[k].sms_id # flags[i].sms_id ]_vars

\* A scan has returned that found a result whose identifier was already
\* flagged and inserted nothing for it.
C1_Witness ==
    \E s \in Slots :
        /\ scan[s].pc = "returned"
        /\ Len(flags) > 0
        /\ scan[s].inserted < Len(scan[s].detection_results)

\* C2: the run of an invocation of the periodic scan is committed as running
\* before the fetch, and when the invocation has ended its run is finalized:
\* completed or failed.
C2_RunLifecycle ==
    \A s \in Slots :
        /\ scan[s].pc = "fetch" =>
              /\ scan[s].run \in DOMAIN runs
              /\ runs[scan[s].run].status = "running"
        /\ (Ended(s) /\ scan[s].run \in DOMAIN runs) =>
              runs[scan[s].run].status \in {"completed", "failed"}

\* C3: when a scan was cancelled after its run was committed as running, the
\* run is failed once the invocation has ended.
C3_CancelledRunFailed ==
    \A s \in Slots :
        scan[s].pc = "cancelled" => runs[scan[s].run].status = "failed"

\* C4: the scams_detected of a completed run is the number of scam_flags rows
\* the run inserted: a message flagged by an earlier scan is not counted.
C4_CountsInsertedFlags ==
    \A s \in Slots :
        scan[s].pc = "returned" =>
            runs[scan[s].run].scams_detected = scan[s].inserted

C6_FailureRecorded ==
    \A s \in Slots :
        (scan[s].pc = "raised" /\ scan[s].run \in DOMAIN runs) =>
            /\ runs[scan[s].run].status = "failed"
            /\ runs[scan[s].run].error_message = scan[s].exc

\* C7: there is at most one nightly report per report date; no step changes
\* or removes a report, and a job that saves a report for a date that has one
\* ends raising, the table unchanged.
C7_OneReportPerDate ==
    /\ [](\A i, j \in DOMAIN reports :
            reports[i].report_date = reports[j].report_date => i = j)
    /\ [][ /\ Len(reports') >= Len(reports)
           /\ \A i \in DOMAIN reports : reports'[i] = reports[i]
           /\ \A s \in Slots :
                (/\ nightly[s].pc = "save"
                 /\ nightly'[s].pc # "save"
                 /\ \E i \in DOMAIN reports :
                      reports[i].report_date = nightly[s].report.report_date)
                => /\ nightly'[s].pc = "raised"
                   /\ nightly'[s].exc # NoError
                   /\ reports' = reports ]_vars

\* A nightly job has raised the uniqueness error for a date whose stored
\* report differs from the one it built.
C7_Witness ==
    \E s \in Slots :
        /\ nightly[s].pc = "raised"
        /\ nightly[s].exc = IntegrityError
        /\ \E i \in DOMAIN reports :
              /\ reports[i].report_date = nightly[s].report.report_date
              /\ reports[i] # nightly[s].report

\* C8: at most one periodic scan and at most one nightly summary execute at
\* any moment, and the scheduler's count of instances is the number of
\* executing coroutines of each job.
C8_OneInstancePerJob ==
    /\ Cardinality({s \in Slots : scan[s].pc # "idle"}) <= 1
    /\ Cardinality({s \in Slots : nightly[s].pc # "idle"}) <= 1
    /\ instances["periodic_scan"] = Cardinality({s \in Slots : scan[s].pc # "idle"})
    /\ instances["nightly_summary"] =
          Cardinality({s \in Slots : nightly[s].pc # "idle"})

\* A scan and a nightly summary execute at the same time, and a trigger of
\* the scan that fired meanwhile was skipped.
C8_Witness ==
    /\ \E s \in Slots : scan[s].pc = "fetch"
    /\ \E s \in Slots : nightly[s].pc = "save"
    /\ skipped["periodic_scan"]

\* C9: the risk score of a flagged message is rule confidence * 60, counted
\* only when the rule library matched, plus behavioral confidence * 40,
\* counted only when the scorer judged the message suspicious, and lies in
\* [0,100] (tenths of a point: 0..1000).
C9_RiskScore ==
    (analysis.called /\ analysis.result # <<>>) =>
        LET m == analysis.msg
            score == analysis.result[1].risk_score
        IN  /\ score = (IF m.pat.is_match THEN m.pat.confidence * 60 ELSE 0)
                       + (IF m.beh.is_suspicious THEN m.beh.confidence * 40 ELSE 0)
            /\ score >= 0
            /\ score <= 1000

\* A message was flagged whose rule matched and whose behavioral confidence,
\* below 0.4, is not counted.
C9_Witness ==
    /\ analysis.called
    /\ analysis.result # <<>>
    /\ analysis.msg.pat.is_match
    /\ analysis.msg.beh.confidence = 3
    /\ analysis.result[1].risk_score = analysis.msg.pat.confidence * 60

\* C10: the risk level is found by testing score/100 against the configured
\* thresholds in descending order with inclusive lower bounds: a score equal
\* to a threshold has the higher level.
C10_RiskLevel ==
    (analysis.called /\ analysis.result # <<>>) =>
        LET score == analysis.result[1].risk_score
            level == analysis.result[1].risk_level
        IN  level = IF score >= settings.risk_threshold_critical * 10
                    THEN "CRITICAL"
                    ELSE IF score >= settings.risk_threshold_high * 10
                    THEN "HIGH"
                    ELSE IF score >= settings.risk_threshold_medium * 10
                    THEN "MEDIUM"
                    ELSE "LOW"

\* With the default thresholds 0.9 / 0.7 / 0.4 the level is CRITICAL from 90,
\* HIGH from 70, MEDIUM from 40 and LOW below: the products 90.0, 70.0 and
\* 40.0 are exact.
RiskLevelWithDefaults ==
    (analysis.called /\ analysis.result # <<>> /\ settings = DefaultSettings) =>
        LET score == analysis.result[1].risk_score
            level == analysis.result[1].risk_level
        IN  /\ level = "CRITICAL" <=> score >= 900
            /\ level = "HIGH" <=> (score >= 700 /\ score < 900)
            /\ level = "MEDIUM" <=> (score >= 400 /\ score < 700)
            /\ level = "LOW" <=> score < 400

\* C11: analyze_message returns None exactly when neither the rule library
\* matched nor the behavioral scorer judged the message suspicious; otherwise
\* the method is hybrid iff both fired, pattern_match iff only the rule library
\* fired, behavioral iff only the scorer fired; neither the result nor the
\* ScamFlag made from it has the method unknown.
C11_DetectionMethod ==
    analysis.called =>
        LET p == analysis.msg.pat.is_match
            b == analysis.msg.beh.is_suspicious
        IN  /\ analysis.result = <<>> <=> (~p /\ ~b)
            /\ analysis.result # <<>> =>
                 LET method == analysis.result[1].detection_method
                 IN  /\ method = "hybrid" <=> (p /\ b)
                     /\ method = "pattern_match" <=> (p /\ ~b)
                     /\ method = "behavioral" <=> (~p /\ b)
                     /\ method # "unknown"
                     /\ NewScamFlag(analysis.result[1], today).detection_method
                            \in {"hybrid", "pattern_match", "behavioral"}

\* A message on which both the rule library and the scorer fired was analyzed
\* and has the method hybrid.
C11_Witness ==
    /\ analysis.called
    /\ analysis.msg.pat.is_match
    /\ analysis.msg.beh.is_suspicious
    /\ analysis.result # <<>>
    /\ analysis.result[1].detection_method = "hybrid"

\* No row of scam_flags has the method unknown.
FlagsMethodKnown ==
    \A i \in DOMAIN flags :
        flags[i].detection_method \in {"hybrid", "pattern_match", "behavioral"}

(* The rules of the table that match the text, as positions of the         *)
(* iteration order                                                         *)
Matching(table, message) ==
    {k \in DOMAIN IterationOrder(table) :
        re_search(IterationOrder(table)[k].rule.pattern, lower(message))}

(* The first rule, in iteration order, among the matching rules of maximum *)
(* confidence                                                              *)
FirstOfMax(table, message) ==
    LET order == IterationOrder(table)
        M == Matching(table, message)
        top == {k \in M : \A l \in M : order[l].rule.confidence
                                          <= order[k].rule.confidence}
    IN  CHOOSE k \in top : \A l \in top : k <= l

\* C12: for every rule table add_pattern can make and every text that matches
\* at least one rule, check reports is_match with the confidence and the
\* category of the first rule, in iteration order, among the matching rules of
\* maximum confidence; a repeated evaluation on the same table returns the
\* same result.
C12_FirstOfMaximum ==
    /\ []((pcheck.fresh /\ Matching(patterns, pcheck.message) # {}) =>
            LET first == IterationOrder(patterns)[FirstOfMax(patterns, pcheck.message)]
                result == pcheck.result[1]
            IN  /\ result.is_match
                /\ result.confidence = first.rule.confidence
                /\ result.category = first.category)
    /\ [][(pcheck.fresh /\ patterns' = patterns) => pcheck'.result = pcheck.result]_vars

\* When a matching rule has a confidence above 0, check reports the first
\* rule among the matching rules of maximum confidence.
FirstOfMaximumAboveZero ==
    (/\ pcheck.fresh
     /\ \E k \in Matching(patterns, pcheck.message) :
            IterationOrder(patterns)[k].rule.confidence > 0) =>
        LET first == IterationOrder(patterns)[FirstOfMax(patterns, pcheck.message)]
            result == pcheck.result[1]
        IN  /\ result.is_match
            /\ result.confidence = first.rule.confidence
            /\ result.category = first.category

(* The flags of a report's day, the reviewed ones among them and the false *)
(* positives among these                                                   *)
DayFlags(report) == FlagsOfDay(flags, report.report_date)

ReviewedOf(rows) == SelectSeq(rows, LAMBDA f : f.reviewed)

FalsePositivesOf(rows) ==
    SelectSeq(ReviewedOf(rows), LAMBDA f : f.review_status = "false_positive")

\* C13: the false-positive rate of a persisted report is 0 when no flag of
\* the day is reviewed, and otherwise the number of reviewed flags with
\* review_status false_positive divided by the number of reviewed flags.
C13_FalsePositiveRate ==
    \A i \in DOMAIN reports :
        LET rate == reports[i].false_positive_rate
            reviewed == Len(ReviewedOf(DayFlags(reports[i])))
            fp == Len(FalsePositivesOf(DayFlags(reports[i])))
        IN  IF reviewed = 0 THEN rate.num = 0
            ELSE rate.num * reviewed = fp * rate.den

\* The rate of a persisted report is that quotient times 100.
FalsePositivePercent ==
    \A i \in DOMAIN reports :
        LET rate == reports[i].false_positive_rate
            reviewed == Len(ReviewedOf(DayFlags(reports[i])))
            fp == Len(FalsePositivesOf(DayFlags(reports[i])))
        IN  IF reviewed = 0 THEN rate.num = 0
            ELSE rate.num * reviewed = 100 * fp * rate.den

Has(items, item) == \E k \in DOMAIN items : items[k] = item

\* C14: the action items of a persisted report follow three independent
\* rules: the volume item is present iff the day has more than 100 flags, the
\* thresholds item iff false-positive flags divided by reviewed flags exceeds
\* 0.5, the new-patterns item iff a new pattern was recorded; a day without
\* flags has total 0, rate 0, no new pattern, no volume and no thresholds item.
C14_ActionItems ==
    \A i \in DOMAIN reports :
        LET r == reports[i]
            total == Len(DayFlags(r))
            reviewed == Len(ReviewedOf(DayFlags(r)))
            fp == Len(FalsePositivesOf(DayFlags(r)))
        IN  /\ Has(r.action_items,
                   "Review detection patterns and consider additional filters")
                  <=> total > 100
            /\ Has(r.action_items, "Review and tune detection thresholds")
                  <=> (reviewed > 0 /\ 2 * fp > reviewed)
            /\ Has(r.action_items, "Review and integrate new patterns into detector")
                  <=> Len(r.new_patterns_learned) > 0
            /\ total = 0 =>
                  /\ r.total_scams_detected = 0
                  /\ r.false_positive_rate.num = 0
                  /\ r.new_patterns_learned = <<>>
                  /\ r.action_items = <<>>

\* The action items without the thresholds rule: the volume item, the
\* new-patterns item and the day without flags are as C14 says; the thresholds
\* item is present iff the day has a reviewed false positive.
ActionItemsAsComputed ==
    \A i \in DOMAIN reports :
        LET r == reports[i]
            total == Len(DayFlags(r))
            fp == Len(FalsePositivesOf(DayFlags(r)))
        IN  /\ Has(r.action_items,
                   "Review detection patterns and consider additional filters")
                  <=> total > 100
            /\ Has(r.action_items, "Review and tune detection thresholds")
                  <=> fp > 0
            /\ Has(r.action_items, "Review and integrate new patterns into detector")
                  <=> Len(r.new_patterns_learned) > 0
            /\ total = 0 =>
                  /\ r.total_scams_detected = 0
                  /\ r.false_positive_rate.num = 0
                  /\ r.new_patterns_learned = <<>>
                  /\ r.action_items = <<>>

Built(s) == nightly[s].pc \in {"save", "returned", "raised"}

\* C15: the nightly job sends to the reviewer at most max_ai_reviews_daily
\* flags, each a flag of the day that is unreviewed and CRITICAL or HIGH; it
\* records one new pattern for exactly the flags whose insight has
\* new_pattern_detected true and a confidence above 0.8, with the first 100
\* characters of the message at most as example; and no step of the job
\* changes the rule table or a row of scam_flags.
C15_BoundedReview ==
    /\ [](\A s \in Slots : Built(s) =>
            LET sent == nightly[s].reviewed_by_ai
                insights == nightly[s].insights
                new == nightly[s].report.new_patterns_learned
                hits == {k \in DOMAIN sent :
                            /\ insights[k].new_pattern_detected = "True"
                            /\ insights[k].confidence > 80}
            IN  /\ Len(sent) <= settings.max_ai_reviews_daily
                /\ \A k \in DOMAIN sent :
                      /\ ~sent[k].reviewed
                      /\ sent[k].risk_level \in {"CRITICAL", "HIGH"}
                      /\ \E i \in DOMAIN flags :
                            /\ flags[i] = sent[k]
                            /\ flags[i].flagged_at = nightly[s].report.report_date
                /\ \A k, l \in DOMAIN sent : sent[k].sms_id = sent[l].sms_id => k = l
                /\ Len(new) = Cardinality(hits)
                /\ \A n \in DOMAIN new :
                      /\ Len(new[n].example_message) <= 100
                      /\ \E k \in hits :
                            /\ new[n].confidence = insights[k].confidence
                            /\ new[n].pattern = insights[k].pattern_regex
                            /\ Len(new[n].example_message)
                                 <= Len(sent[k].message_text)
                            /\ new[n].example_message
                                 = SubSeq(sent[k].message_text, 1,
                                          Len(new[n].example_message))
                            /\ (Len(new[n].example_message) = 100
                                \/ new[n].example_message = sent[k].message_text))
    /\ [][patterns' = patterns /\ flags' = flags]_vars

\* Under a limit of one review, a day with two unreviewed high-risk flags: one
\* was sent to the reviewer, its insight reported a new pattern, and the
\* example recorded is the first 100 characters of a longer message.
C15_Witness ==
    \E s \in Slots :
        /\ nightly[s].pc = "save"
        /\ settings.max_ai_reviews_daily = 1
        /\ Len(HighRiskUnreviewedNoLimit(nightly[s].scam_flags)) = 2
        /\ Len(nightly[s].reviewed_by_ai) = 1
        /\ Len(nightly[s].report.new_patterns_learned) = 1
        /\ Len(nightly[s].report.new_patterns_learned[1].example_message) = 100
        /\ Len(nightly[s].reviewed_by_ai[1].message_text) > 100

\* C16: a failure of a call of the reviewer never prevents the nightly
\* report.  Every selected flag is reviewed whatever the earlier reviews
\* returned, a failed review contributes no new pattern, a failed summary
\* leaves the fallback text, and the report is built with the metrics of the
\* day's flags; the job raises only when the commit of the report fails, and
\* when it returns exactly one report of the date is persisted, the one built.
C16_ReviewerFailuresAreSoft ==
    \A s \in Slots :
        /\ Built(s) =>
              (nightly[s].pc = "raised" /\ nightly[s].exc \in {IntegrityError, OperationalError})
              \/ nightly[s].pc \in {"save", "returned"}
        /\ Built(s) =>
              LET sent == nightly[s].reviewed_by_ai
                  insights == nightly[s].insights
                  r == nightly[s].report
                  day == FlagsOfDay(flags, today - 1)
              IN  /\ sent = HighRiskUnreviewed(day)
                  /\ DOMAIN insights = DOMAIN sent
                  /\ Len(r.new_patterns_learned)
                        <= Cardinality({k \in DOMAIN sent : insights[k] # ErrorInsight})
                  /\ r.report_date = today - 1
                  /\ r.total_scams_detected = Len(day)
                  /\ r.scams_by_risk_level = _count_by_field(day, "risk_level")
                  /\ r.detection_methods = _count_by_field(day, "detection_method")
                  /\ r.false_positive_rate = FalsePositiveRate(day)
                  /\ r.ai_summary \in Summaries
        /\ nightly[s].pc = "returned" =>
              /\ Cardinality({i \in DOMAIN reports :
                    reports[i].report_date = nightly[s].report.report_date}) = 1
              /\ \E i \in DOMAIN reports : reports[i] = nightly[s].report

\* A nightly job returned after the review of its first flag failed, the
\* review of its second flag reported a new pattern and the summary call
\* failed: the report is persisted with one new pattern and the fallback text.
C16_Witness ==
    \E s \in Slots :
        /\ nightly[s].pc = "returned"
        /\ Len(nightly[s].reviewed_by_ai) = 2
        /\ nightly[s].insights[1] = ErrorInsight
        /\ nightly[s].insights[2].new_pattern_detected = "True"
        /\ nightly[s].insights[2].confidence > 80
        /\ \E i \in DOMAIN reports :
              /\ reports[i].report_date = today - 1
              /\ reports[i].ai_summary = "Error generating summary"
              /\ Len(reports[i].new_patterns_learned) = 1
              /\ reports[i].total_scams_detected = 2

\* C17: for the text of Scenario A and the built-in rule table, the rule
\* library reports a match in category phishing with confidence at least 0.7,
\* and the coordinator returns a scam result whose method is pattern_match
\* or hybrid.
C17_ScenarioA ==
    (analysis.called /\ analysis.msg.message = ScenarioA /\ patterns = _load_patterns) =>
        /\ analysis.msg.pat.is_match
        /\ analysis.msg.pat.category = "phishing"
        /\ analysis.msg.pat.confidence >= 7
        /\ analysis.result # <<>>
        /\ analysis.result[1].is_scam
        /\ analysis.result[1].detection_method \in {"pattern_match", "hybrid"}

\* What the code does for the text of Scenario A: only the rule
\* click.*(here|link|below) matches it, with confidence 0.6; the method is
\* pattern_match unless the sender adds a behavioral match.
ScenarioAAsComputed ==
    (analysis.called /\ analysis.msg.message = ScenarioA /\ patterns = _load_patterns) =>
        /\ analysis.msg.pat.is_match
        /\ analysis.msg.pat.category = "phishing"
        /\ analysis.msg.pat.confidence = 6
        /\ analysis.result # <<>>
        /\ analysis.result[1].is_scam
        /\ analysis.result[1].detection_method \in {"pattern_match", "hybrid"}

\* The conditions of the behavioral scorer, each stated on the message
Triggered(name, known, m) ==
    CASE name = "known_scammer" -> m.host_number \in known
      [] name = "short_message_with_link" ->
            /\ Len(m.message) < 20
            /\ \/ Contains(lower(m.message), <<"h", "t", "t", "p">>)
               \/ Contains(lower(m.message), <<"b", "i", "t", ".", "l", "y">>)
               \/ Contains(lower(m.message), <<"c", "l", "i", "c", "k">>)
      [] name = "excessive_caps" ->
            /\ Len(m.message) > 10
            /\ 2 * Cardinality({i \in DOMAIN m.message : isupper(m.message[i])})
                  > Len(m.message)
      [] name = "excessive_exclamation" ->
            Cardinality({i \in DOMAIN m.message : m.message[i] = "!"}) >= 3
      [] name = "multiple_suspicious_keywords" ->
            \E k1, k2 \in suspicious_keywords :
                /\ k1 # k2
                /\ Contains(lower(m.message), k1)
                /\ Contains(lower(m.message), k2)
      [] name = "international_number" ->
            Cardinality({i \in DOMAIN m.host_number :
                            m.host_number[i] \notin {"+", "-"}}) > 11

WeightIf(name, known, m, weight) == IF Triggered(name, known, m) THEN weight ELSE 0

\* C18: the behavioral scorer's confidence is min(1.0, sum of the weights of
\* the triggered conditions) with weights 0.9 known-bad sender, 0.6 short
\* text with link, 0.4 uppercase ratio, 0.3 three or more '!', 0.5 two or
\* more suspicious keywords, 0.2 long sender address; exactly the triggered
\* conditions appear as flags, is_suspicious holds iff confidence >= 0.4, and
\* the category is behavioral_analysis iff is_suspicious, absent otherwise.
C18_BehavioralScore ==
    [][(~analysis.called /\ analysis'.called) =>
        LET m == analysis'.msg
            known == known_scam_numbers
            total == WeightIf("known_scammer", known, m, 9)
                     + WeightIf("short_message_with_link", known, m, 6)
                     + WeightIf("excessive_caps", known, m, 4)
                     + WeightIf("excessive_exclamation", known, m, 3)
                     + WeightIf("multiple_suspicious_keywords", known, m, 5)
                     + WeightIf("international_number", known, m, 2)
        IN  /\ m.beh.confidence = (IF total > 10 THEN 10 ELSE total)
            /\ \A name \in {"known_scammer", "short_message_with_link",
                            "excessive_caps", "excessive_exclamation",
                            "multiple_suspicious_keywords", "international_number"} :
                  name \in m.beh.flags <=> Triggered(name, known, m)
            /\ m.beh.flags \subseteq {"known_scammer", "short_message_with_link",
                            "excessive_caps", "excessive_exclamation",
                            "multiple_suspicious_keywords", "international_number"}
            /\ m.beh.is_suspicious <=> m.beh.confidence >= 4
            /\ m.beh.category = "behavioral_analysis" <=> m.beh.is_suspicious
            /\ ~m.beh.is_suspicious => m.beh.category = "None"]_vars

\* A message of a known-bad sender with a long address was scored: all six
\* conditions hold, their weights add up to 2.9 and the confidence is 1.0.
C18_Witness ==
    /\ analysis.called
    /\ Cardinality(analysis.msg.beh.flags) = 6
    /\ analysis.msg.host_number \in known_scam_numbers
    /\ analysis.msg.beh.confidence = 10
    /\ analysis.msg.beh.is_suspicious
    /\ analysis.msg.beh.category = "behavioral_analysis"

\* The time range of run r2 contains the time range of run r
WindowContains(r2, r) ==
    /\ windows[r2].start_time <= windows[r].start_time
    /\ windows[r].end_time <= windows[r2].end_time

\* C19: after a periodic scan ends failed, the messages of its time window
\* are not lost: the next periodic trigger scans a window that contains the
\* failed run's window, so every suspicious message sent in the failed window
\* (here: before the minute of the failed run's fetch) is flagged once a
\* later scan has completed.
C19_FailedWindowRetried ==
    \A r \in DOMAIN runs :
        (runs[r].status = "failed" /\ windows[r] # <<>>) =>
            /\ (r + 1 \in DOMAIN runs /\ windows[r + 1] # <<>>) =>
                  WindowContains(r + 1, r)
            /\ (\E r2 \in DOMAIN runs : r2 > r /\ runs[r2].status = "completed") =>
                  \A p \in portal, m \in Messages :
                      ( /\ m.id = p.id
                        /\ ~m.malformed
                        /\ Suspicious(m)
                        /\ windows[r].start_time <= p.inserted_at
                        /\ p.inserted_at < windows[r].end_time ) =>
                      \E k \in DOMAIN flags : flags[k].sms_id = m.id

\* What the code does: the time range of every run is the 15 minutes before
\* its own fetch, so the range of a later run contains the range of an
\* earlier one only when both fetch at the same minute.
WindowsFollow ==
    \A r, r2 \in DOMAIN runs :
        (r < r2 /\ windows[r] # <<>> /\ windows[r2] # <<>>) =>
            /\ windows[r].start_time <= windows[r2].start_time
            /\ windows[r].end_time - windows[r].start_time = window_minutes
            /\ windows[r2].end_time - windows[r2].start_time = window_minutes

\* A suspicious message sent in the time range of a failed run has no flag
\* after the run of the next trigger completed.
MessageOfFailedWindowLost ==
    \E r \in DOMAIN runs, p \in portal, m \in Messages :
        /\ runs[r].status = "failed" /\ windows[r] # <<>>
        /\ r + 1 \in DOMAIN runs /\ runs[r + 1].status = "completed"
        /\ m.id = p.id /\ ~m.malformed /\ Suspicious(m)
        /\ windows[r].start_time <= p.inserted_at
        /\ p.inserted_at < windows[r].end_time
        /\ \A k \in DOMAIN flags : flags[k].sms_id # m.id

\* The fetched batch of slot s holds two suspicious messages with the same
\* identifier
RepeatedInBatch(s) ==
    \E i, j \in DOMAIN scan[s].messages :
        /\ i # j
        /\ scan[s].messages[i].id = scan[s].messages[j].id
        /\ ~scan[s].messages[i].malformed
        /\ Suspicious(scan[s].messages[i])

\* C20: within one scan, the existence check for a message identifier
\* observes every ScamFlag this same scan has already inserted: when the
\* fetched batch contains two suspicious messages with the same identifier
\* and the database can be reached, exactly one ScamFlag is persisted for it,
\* the other flags of the batch are persisted too, and the run ends completed.
C20_RepeatedIdentifierInBatch ==
    \A s \in Slots :
        ( /\ RepeatedInBatch(s)
          /\ scan[s].pc \in {"returned", "raised"}
          /\ scan[s].exc # OperationalError ) =>
            /\ scan[s].pc = "returned"
            /\ runs[scan[s].run].status = "completed"
            /\ \A k \in DOMAIN scan[s].detection_results :
                  Cardinality({f \in DOMAIN flags :
                      flags[f].sms_id = scan[s].detection_results[k].sms_id}) = 1

\* What the code does: a scan whose batch repeats the identifier of a
\* suspicious message completes only when the identifier had its row before
\* the scan; otherwise the commit of line 92 raises IntegrityError, no flag of
\* the batch is persisted and the run ends failed.
RepeatedIdentifierAsComputed ==
    \A s \in Slots :
        ( /\ RepeatedInBatch(s)
          /\ scan[s].pc \in {"returned", "raised"}
          /\ scan[s].exc # OperationalError ) =>
            \/ /\ scan[s].pc = "returned"
               /\ scan[s].inserted < Len(scan[s].detection_results)
            \/ /\ scan[s].pc = "raised"
               /\ scan[s].exc = IntegrityError
               /\ runs[scan[s].run].status = "failed"
               /\ runs[scan[s].run].error_message = IntegrityError

\* The evaluation of message m carries the known-sender flag with
\* confidence at least 0.9 and is suspicious; results holds its result, with
\* method behavioral when no rule matches.
KnownSenderFlagged(m, results) ==
    /\ "known_scammer" \in m.beh.flags
    /\ m.beh.confidence >= 9
    /\ m.beh.is_suspicious
    /\ \E k \in DOMAIN results :
          /\ results[k].sms_id = m.id
          /\ results[k].is_scam
          /\ ~m.pat.is_match => results[k].detection_method = "behavioral"

\* C21: a sender marked known-bad stays known-bad for the detection
\* pipeline: after mark_number_as_scam(a), every later evaluation of a
\* message from sender a, including those made by every later periodic scan
\* and for any text such as "hi", carries the known-sender flag with
\* behavioral confidence at least 0.9 and is_suspicious = true, and the
\* message is flagged with method behavioral when no rule matches.
C21_KnownSenderStaysKnown ==
    [][ /\ (~analysis.called /\ analysis'.called
              /\ analysis.msg.host_number \in known_scam_numbers) =>
                KnownSenderFlagged(analysis'.msg, analysis'.result)
        /\ \A s \in Slots :
              (scan[s].pc = "classify" /\ scan'[s].pc = "write") =>
                  \A i \in DOMAIN scan[s].messages :
                      scan[s].messages[i].host_number \in known_scam_numbers =>
                          KnownSenderFlagged(scan[s].messages[i],
                                             scan'[s].detection_results) ]_vars

\* What the code does: on the detector the number was marked on, every
\* later evaluation carries the flag; the set of marked numbers only grows.
KnownOnSameDetector ==
    [][ /\ known_scam_numbers \subseteq known_scam_numbers'
        /\ (~analysis.called /\ analysis'.called
              /\ analysis.msg.host_number \in known_scam_numbers) =>
                KnownSenderFlagged(analysis'.msg, analysis'.result) ]_vars

\* What the code does: the detector of a periodic scan is new, so no
\* evaluation of a scan carries the known-sender flag, whatever was marked.
ScanNeverKnowsSender ==
    \A s \in Slots : \A i \in DOMAIN scan[s].messages :
        "known_scammer" \notin scan[s].messages[i].beh.flags

\* A scan has completed with the message "hi" of a sender marked before the
\* scan's run was created, and the message has no flag.
MarkedSenderNotFlagged ==
    \E s \in Slots :
        /\ scan[s].pc = "returned"
        /\ Len(scan[s].messages) = 1
        /\ scan[s].messages[1].message = TextHi
        /\ scan[s].messages[1].host_number \in known_scam_numbers
        /\ scan[s].detection_results = <<>>
        /\ \A k \in DOMAIN flags : flags[k].sms_id # scan[s].messages[1].id

====
